---- MODULE Spec2Model ----
(***************************************************************************)
(* A model of meagar/rsvp (src/main.go): the bootstrap of init()           *)
(* (loadEnv, loadTemplates, connectDB), main() and the two HTTP handlers.  *)
(*                                                                         *)
(* Strings are sequences of atoms.  An atom is a run of characters that    *)
(* is never split by the program ("PORT", "8080", "templates/", ".tmpl");  *)
(* the separators the program looks for ("=" in a line, "/" in a request   *)
(* path) are atoms of their own, and no atom is a prefix of another, so    *)
(* prefix, suffix and split on atoms agree with prefix, suffix and split   *)
(* on characters.                                                          *)
(***************************************************************************)
EXTENDS Integers, Sequences, FiniteSets, TLC

VARIABLES
    pc,            \* position of the main goroutine (init, then main)
    env,           \* the process environment: a function key -> value
    env0,          \* the process environment at process start
    file,          \* the lines of .env
    idx,           \* the number of lines the scanner has delivered whole
    scanErr,       \* scanner.Err(): "nil", "toolong" or "read"
    diag,          \* what the process printed when it terminated itself
    tree,          \* the embedded template tree: walk position -> body
    widx,          \* the walk position fs.WalkDir has reached
    rootTemplate,  \* the html/template name space (Nil before template.New)
    parseErrs,     \* the walk positions whose Parse returned an error
    conns,         \* the number of database connections opened so far
    closed,        \* the connections on which Close was called
    mux,           \* http.DefaultServeMux: pattern -> handler
    port,          \* main's local port
    adminPath,     \* main's local adminPath
    hdb,           \* Handler.db: the connection the primary handler queries
    listening,     \* whether the listener is bound
    inbox,         \* the paths of the requests the clients have yet to send
    table,         \* the rows of the users table
    reqs           \* the requests accepted, each with its goroutine

vars == <<pc, env, env0, file, idx, scanErr, diag, tree, widx, rootTemplate,
          parseErrs, conns, closed, mux, port, adminPath, hdb, listening,
          inbox, table, reqs>>

envVars == <<env0, file, inbox, table>>
tmplVars == <<tree, widx, rootTemplate, parseErrs>>
mainVars == <<conns, closed, mux, port, adminPath, hdb>>

(***************************************************************************)
(* Bounds of the model.                                                    *)
(***************************************************************************)
MaxLines == 2      \* lines of .env
MaxRequests == 2   \* requests the clients send
MaxRows == 2       \* rows of the users table

Nil == "nil"

(***************************************************************************)
(* strings                                                                 *)
(***************************************************************************)
HasPrefix(s, p) == Len(s) >= Len(p) /\ SubSeq(s, 1, Len(p)) = p

HasSuffix(s, p) == Len(s) >= Len(p) /\ SubSeq(s, Len(s) - Len(p) + 1, Len(s)) = p

TrimPrefix(s, p) == IF HasPrefix(s, p) THEN SubSeq(s, Len(p) + 1, Len(s)) ELSE s

TrimSuffix(s, p) == IF HasSuffix(s, p) THEN SubSeq(s, 1, Len(s) - Len(p)) ELSE s

\* strings.Split(s, sep) for a one-atom separator: the parts between the
\* occurrences of sep, empty parts included.
RECURSIVE Split(_, _)
Split(s, sep) ==
    IF \A i \in 1..Len(s) : s[i] # sep
    THEN <<s>>
    ELSE LET i == CHOOSE j \in 1..Len(s) :
                      s[j] = sep /\ \A k \in 1..(j - 1) : s[k] # sep
         IN <<SubSeq(s, 1, i - 1)>> \o Split(SubSeq(s, i + 1, Len(s)), sep)

RECURSIVE Join(_, _)
Join(parts, sep) ==
    IF parts = <<>> THEN <<>>
    ELSE IF Len(parts) = 1 THEN parts[1]
    ELSE parts[1] \o <<sep>> \o Join(Tail(parts), sep)

(***************************************************************************)
(* The process environment (os.LookupEnv, os.Getenv, os.Setenv).           *)
(***************************************************************************)
PORT == <<"PORT">>
DATABASE_URL == <<"DATABASE_URL">>
ADMIN_PATH == <<"ADMIN_PATH">>
DefaultAdminPath == <<"/", "admin", "/">>

LookupEnv(e, key) == key \in DOMAIN e

\* os.Setenv refuses an empty key and a NUL byte in key or value (EINVAL);
\* loadEnv drops the error, so the environment is then left as it was.
SetenvOK(key, value) ==
    /\ Len(key) > 0
    /\ \A i \in 1..Len(key) : key[i] # "NUL"
    /\ \A i \in 1..Len(value) : value[i] # "NUL"

Setenv(e, key, value) ==
    IF SetenvOK(key, value)
    THEN [k \in DOMAIN e \cup {key} |-> IF k = key THEN value ELSE e[k]]
    ELSE e

EnvFrom(pairs) ==
    [k \in {p[1] : p \in pairs} |-> (CHOOSE p \in pairs : p[1] = k)[2]]

(***************************************************************************)
(* Termination: log.Fatal, log.Fatalf and os.Exit end the process at once; *)
(* no deferred call runs and every goroutine stops.                        *)
(***************************************************************************)
NoDiag == [kind |-> "none", text |-> <<>>]

\* A variant of Exit that ends the calling goroutine alone: the diagnostic
\* is printed, the process and its listener go on.
ExitGoroutine(kind, text) ==
    /\ pc' = pc
    /\ diag' = [kind |-> kind, text |-> text]
    /\ listening' = listening

Exit(kind, text) ==
    /\ pc' = "exited"
    /\ diag' = [kind |-> kind, text |-> text]
    /\ listening' = FALSE

(***************************************************************************)
(* loadEnv                                                                 *)
(***************************************************************************)
\* bufio.Scanner gives up on a line of MaxScanTokenSize bytes or more; the
\* atom "LONG" stands for such a run of bytes.
TooLong(line) == \E i \in 1..Len(line) : line[i] = "LONG"

\* A variant of LoadEnvOpenFail that reports the error and goes on with the
\* environment as it is.
LoadEnvOpenSkip ==
    /\ pc = "loadEnv"
    /\ pc' = "loadTemplates"
    /\ diag' = [kind |-> "open", text |-> <<>>]
    /\ UNCHANGED <<listening, env, idx, scanErr, envVars, tmplVars, mainVars,
                   reqs>>

\* os.Open(".env") fails: log.Fatal(err).
LoadEnvOpenFail ==
    /\ pc = "loadEnv"
    /\ Exit("open", <<>>)
    /\ UNCHANGED <<env, idx, scanErr, envVars, tmplVars, mainVars, reqs>>

LoadEnvOpen ==
    /\ pc = "loadEnv"
    /\ pc' = "scan"
    /\ UNCHANGED <<env, idx, scanErr, diag, listening, envVars, tmplVars,
                   mainVars, reqs>>

\* A line is accepted when strings.Split(line, "=") has two parts.
WellFormed(line) == Len(Split(line, "=")) = 2

\* A variant of SetFrom without the lookup: the file overrides the
\* environment and the last line for a key wins.
SetFromAlways(e, parts) == Setenv(e, parts[1], parts[2])

\* Lines 48-51: the environment after an accepted token.
SetFrom(e, parts) ==
    IF ~LookupEnv(e, parts[1]) THEN Setenv(e, parts[1], parts[2]) ELSE e

\* The loop body (lines 42-55) on one token, with the value err of
\* scanner.Err() at line 53.
LoopBody(token, err) ==
    IF ~WellFormed(token)
    THEN /\ Exit("malformed", token)
         /\ UNCHANGED env
    ELSE /\ env' = SetFrom(env, Split(token, "="))
         /\ IF err # "nil"
            THEN Exit("read", <<>>)
            ELSE UNCHANGED <<pc, diag, listening>>

\* scanner.Scan() delivers the next line whole; scanner.Err() is nil.
LoadEnvLine ==
    /\ pc = "scan"
    /\ idx < Len(file)
    /\ ~TooLong(file[idx + 1])
    /\ LoopBody(file[idx + 1], "nil")
    /\ idx' = IF WellFormed(file[idx + 1]) THEN idx + 1 ELSE idx
    /\ UNCHANGED <<scanErr, envVars, tmplVars, mainVars, reqs>>

\* A read error in the middle of the next line: Scan() delivers what was read
\* of it as the last token and returns true, with scanner.Err() set.  The
\* loop body runs on that token and the check at line 53 ends the process.
LoadEnvPartial ==
    /\ pc = "scan"
    /\ idx < Len(file)
    /\ ~TooLong(file[idx + 1])
    /\ \E n \in 1..Len(file[idx + 1]) :
           LoopBody(SubSeq(file[idx + 1], 1, n), "read")
    /\ scanErr' = "read"
    /\ UNCHANGED <<idx, envVars, tmplVars, mainVars, reqs>>

\* Scan() returns false and the loop ends; loadEnv returns, whatever
\* scanner.Err() holds: the check at line 53 is inside the loop.
LoopEnd(err) ==
    /\ pc' = "loadTemplates"
    /\ scanErr' = err
    /\ UNCHANGED <<env, idx, diag, listening, envVars, tmplVars, mainVars,
                   reqs>>

\* The end of the file.
LoadEnvEOF ==
    /\ pc = "scan"
    /\ idx = Len(file)
    /\ LoopEnd("nil")

\* The next line is too long for the scanner's buffer: ErrTooLong.
LoadEnvTooLong ==
    /\ pc = "scan"
    /\ idx < Len(file)
    /\ TooLong(file[idx + 1])
    /\ LoopEnd("toolong")

\* A read error with nothing buffered.
LoadEnvReadErr ==
    /\ pc = "scan"
    /\ idx < Len(file)
    /\ LoopEnd("read")

(***************************************************************************)
(* Template bodies.  A body is one of five texts; text/template parses it  *)
(* (ParseOK), the parse tree may be empty (IsEmptyTree), and executing it  *)
(* on data gives an output or an error (ExecOK, ExecOut).                  *)
(***************************************************************************)
BodyHi == "Hi {{.Name}}"
BodyYo == "Yo {{.Name}}"
BodyEmpty == ""
BodyBad == "{{"
BodyId == "{{.Id}}"
Bodies == {BodyHi, BodyYo, BodyEmpty, BodyBad, BodyId}

ParseOK(body) == body # BodyBad

IsEmptyTree(body) == body = BodyEmpty

\* A field the data does not have is an execution error.
ExecOK(body, data) ==
    IF body = BodyId THEN "Id" \in DOMAIN data
    ELSE IF body \in {BodyHi, BodyYo} THEN "Name" \in DOMAIN data
    ELSE TRUE

ExecOut(body, data) ==
    IF body = BodyHi THEN <<"Hi ", data.Name>>
    ELSE IF body = BodyYo THEN <<"Yo ", data.Name>>
    ELSE IF body = BodyId THEN <<data.Id>>
    ELSE <<>>

(***************************************************************************)
(* The embedded tree, in the order fs.WalkDir(templateFS, ".") visits it   *)
(* (lexical within a directory).  Directories are always there; tree maps  *)
(* the position of each file to its body, or to Absent.                    *)
(***************************************************************************)
Absent == "absent"

Walk == << [path |-> <<".">>, dir |-> TRUE],
           [path |-> <<"templates">>, dir |-> TRUE],
           [path |-> <<"templates/", "hello">>, dir |-> FALSE],
           [path |-> <<"templates/", "hello", ".tmpl">>, dir |-> FALSE],
           [path |-> <<"templates/", "sub">>, dir |-> TRUE],
           [path |-> <<"templates/", "sub/", "a", ".tmpl">>, dir |-> FALSE] >>

FilePos == {i \in 1..Len(Walk) : ~Walk[i].dir}

Present(t, i) == Walk[i].dir \/ t[i] # Absent

\* Lines 67-68: the logical name of a file.
TemplateName(path) == TrimSuffix(TrimPrefix(path, <<"templates/">>), <<".tmpl">>)

Hello == <<"hello">>

\* The position the walk visits after position i (Len(Walk) + 1 at the end).
NextPos(t, i) ==
    IF \E j \in (i + 1)..Len(Walk) : Present(t, j)
    THEN CHOOSE j \in (i + 1)..Len(Walk) :
             Present(t, j) /\ \A k \in (i + 1)..(j - 1) : ~Present(t, k)
    ELSE Len(Walk) + 1

(***************************************************************************)
(* html/template.  A name space holds                                      *)
(*   set:   name -> [text, Tree], the html templates by name, each with    *)
(*          the text template it wraps and its own Tree field;             *)
(*   tmpl:  name -> text template, the map of the text/template set;       *)
(*   trees: text template -> its Tree (Nil before a Parse).                *)
(* A text template is named by the walk position that made it (0: root).   *)
(***************************************************************************)
\* template.New("")
NewRoot ==
    [set |-> [n \in {<<>>} |-> [text |-> 0, Tree |-> Nil]],
     tmpl |-> [n \in {} |-> 0],
     trees |-> [i \in {0} |-> Nil]]

\* rootTemplate.New(name): a fresh template takes the name's place in set.
TemplateNew(ns, name, id) ==
    [ns EXCEPT !.set = [n \in DOMAIN ns.set \cup {name} |->
                            IF n = name THEN [text |-> id, Tree |-> Nil]
                            ELSE ns.set[n]],
               !.trees = [i \in DOMAIN ns.trees \cup {id} |->
                            IF i = id THEN Nil ELSE ns.trees[i]]]

\* text/template associate: a template whose tree is empty does not replace
\* one of the same name that has a tree.
Associate(ns, name, body) ==
    ~(name \in DOMAIN ns.tmpl /\ IsEmptyTree(body)
                               /\ ns.trees[ns.tmpl[name]] # Nil)

\* (*Template).Parse on the template id made by New(name): the text template
\* gets its tree and, when associated, the name in tmpl; then every name of
\* tmpl is copied into set.  A parse error leaves the name space as it was.
TemplateParse(ns, name, id, body) ==
    IF ~ParseOK(body) THEN ns
    ELSE LET tmpl == IF Associate(ns, name, body)
                     THEN [n \in DOMAIN ns.tmpl \cup {name} |->
                               IF n = name THEN id ELSE ns.tmpl[n]]
                     ELSE ns.tmpl
             trees == [ns.trees EXCEPT ![id] = body]
         IN [set |-> [n \in DOMAIN ns.set \cup DOMAIN tmpl |->
                          IF n \in DOMAIN tmpl
                          THEN [text |-> tmpl[n], Tree |-> trees[tmpl[n]]]
                          ELSE ns.set[n]],
             tmpl |-> tmpl,
             trees |-> trees]

\* Line 79: rootTemplate.New(name).Parse(string(bytes)), the error dropped.
Register(ns, name, id, body) ==
    TemplateParse(TemplateNew(ns, name, id), name, id, body)

\* ExecuteTemplate(w, name, data): the error, or "nil".
ExecuteErr(ns, name, data) ==
    IF name \notin DOMAIN ns.set THEN "undefined"
    ELSE IF ns.trees[ns.set[name].text] = Nil \/ ns.set[name].Tree = Nil
    THEN "incomplete"
    ELSE IF ~ExecOK(ns.trees[ns.set[name].text], data) THEN "exec"
    ELSE "nil"

\* What ExecuteTemplate writes when it returns no error.
ExecuteOut(ns, name, data) == ExecOut(ns.trees[ns.set[name].text], data)

(***************************************************************************)
(* loadTemplates                                                           *)
(***************************************************************************)
\* Line 60.
LoadTemplatesNew ==
    /\ pc = "loadTemplates"
    /\ pc' = "walk"
    /\ rootTemplate' = NewRoot
    /\ widx' = NextPos(tree, 0)
    /\ UNCHANGED <<env, idx, scanErr, diag, listening, envVars, tree,
                   parseErrs, mainVars, reqs>>

\* The callback on a directory: nothing to do.
WalkDirectory ==
    /\ pc = "walk"
    /\ widx <= Len(Walk)
    /\ Walk[widx].dir
    /\ widx' = NextPos(tree, widx)
    /\ UNCHANGED <<pc, env, idx, scanErr, diag, listening, envVars, tree,
                   rootTemplate, parseErrs, mainVars, reqs>>

\* The callback on a file that is read: lines 66-80.
WalkFile ==
    /\ pc = "walk"
    /\ widx <= Len(Walk)
    /\ ~Walk[widx].dir
    /\ rootTemplate' = Register(rootTemplate, TemplateName(Walk[widx].path),
                                widx, tree[widx])
    /\ parseErrs' = IF ParseOK(tree[widx]) THEN parseErrs
                    ELSE parseErrs \cup {widx}
    /\ widx' = NextPos(tree, widx)
    /\ UNCHANGED <<pc, env, idx, scanErr, diag, listening, envVars, tree,
                   mainVars, reqs>>

\* The walk hands the callback an error, or Open or ReadAll fails:
\* log.Fatal(err) at lines 63, 72 and 76.
WalkFail ==
    /\ pc = "walk"
    /\ widx <= Len(Walk)
    /\ Exit("walk", Walk[widx].path)
    /\ UNCHANGED <<env, idx, scanErr, envVars, tmplVars, mainVars, reqs>>

\* The walk is over: line 84, and loadTemplates returns.
WalkDone ==
    /\ pc = "walk"
    /\ widx > Len(Walk)
    /\ pc' = "connectDB"
    /\ UNCHANGED <<env, idx, scanErr, diag, listening, envVars, tmplVars,
                   mainVars, reqs>>

(***************************************************************************)
(* connectDB, fetchEnv, fetchEnvDef                                        *)
(***************************************************************************)
\* pgx.Connect(ctx, os.Getenv("DATABASE_URL")) fails: log.Fatal(err).  An
\* empty or unset DATABASE_URL makes pgx fall back on its defaults (the PG*
\* variables, the local socket), so the value does not decide the outcome.
ConnectFail ==
    /\ pc \in {"connectDB", "mainConnect"}
    /\ Exit("connect", <<>>)
    /\ UNCHANGED <<env, idx, scanErr, envVars, tmplVars, mainVars, reqs>>

\* init's connectDB() succeeds; the connection it returns is dropped.
InitConnect ==
    /\ pc = "connectDB"
    /\ pc' = "main"
    /\ conns' = conns + 1
    /\ UNCHANGED <<env, idx, scanErr, diag, listening, envVars, tmplVars,
                   closed, mux, port, adminPath, hdb, reqs>>

\* A variant of FetchEnv that reports the missing variable and goes on with
\* the empty string.
FetchEnvNoExit(e, name) ==
    [exits |-> FALSE, value |-> IF LookupEnv(e, name) THEN e[name] ELSE <<>>]

\* fetchEnv(name): whether it ends the process (lines 117-118), and the value
\* it returns.
FetchEnv(e, name) ==
    IF ~LookupEnv(e, name) THEN [exits |-> TRUE, value |-> <<>>]
    ELSE [exits |-> FALSE, value |-> e[name]]

\* fetchEnvDef(name, default_value)
FetchEnvDef(e, name, default_value) ==
    IF ~LookupEnv(e, name) THEN default_value ELSE e[name]

\* Line 97.
MainPort ==
    /\ pc = "main"
    /\ IF FetchEnv(env, PORT).exits
       THEN /\ Exit("unset", PORT)
            /\ UNCHANGED port
       ELSE /\ port' = FetchEnv(env, PORT).value
            /\ pc' = "mainConnect"
            /\ UNCHANGED <<diag, listening>>
    /\ UNCHANGED <<env, idx, scanErr, envVars, tmplVars, conns, closed, mux,
                   adminPath, hdb, reqs>>

\* Lines 100-101: main's own connection, the one the Handler gets.
MainConnect ==
    /\ pc = "mainConnect"
    /\ pc' = "mainAdmin"
    /\ conns' = conns + 1
    /\ hdb' = conns + 1
    /\ UNCHANGED <<env, idx, scanErr, diag, listening, envVars, tmplVars,
                   closed, mux, port, adminPath, reqs>>

(***************************************************************************)
(* http.Handle and the ServeMux                                            *)
(***************************************************************************)
Root == <<"/">>

\* A variant of HandlePanics for a mux that lets a later registration take
\* the place of an earlier one.
HandleNeverPanics(m, pattern) == FALSE

\* http.Handle panics on an empty pattern and on a pattern registered
\* before.
HandlePanics(m, pattern) == pattern = <<>> \/ pattern \in DOMAIN m

HandleAdd(m, pattern, handler) ==
    [q \in DOMAIN m \cup {pattern} |-> IF q = pattern THEN handler ELSE m[q]]

\* A panic in main runs the deferred db.Close and ends the process.
Panic(text) ==
    /\ Exit("panic", text)
    /\ closed' = closed \cup {hdb}

\* Lines 106-109.
MainAdmin ==
    /\ pc = "mainAdmin"
    /\ LET p == FetchEnvDef(env, ADMIN_PATH, DefaultAdminPath)
       IN /\ adminPath' = p
          /\ IF HandlePanics(mux, p)
             THEN /\ Panic(p)
                  /\ UNCHANGED mux
             ELSE /\ mux' = HandleAdd(mux, p, "admin")
                  /\ pc' = "mainRoot"
                  /\ UNCHANGED <<diag, listening, closed>>
    /\ UNCHANGED <<env, idx, scanErr, envVars, tmplVars, conns, port, hdb,
                   reqs>>

\* Line 110.
MainRoot ==
    /\ pc = "mainRoot"
    /\ IF HandlePanics(mux, Root)
       THEN /\ Panic(Root)
            /\ UNCHANGED mux
       ELSE /\ mux' = HandleAdd(mux, Root, "primary")
            /\ pc' = "listen"
            /\ UNCHANGED <<diag, listening, closed>>
    /\ UNCHANGED <<env, idx, scanErr, envVars, tmplVars, conns, port,
                   adminPath, hdb, reqs>>

\* Line 112: the listener is bound and the server accepts connections.
Listen ==
    /\ pc = "listen"
    /\ pc' = "serving"
    /\ listening' = TRUE
    /\ UNCHANGED <<env, idx, scanErr, diag, envVars, tmplVars, mainVars, reqs>>

\* Line 112: ListenAndServe returns an error (the port cannot be bound, or
\* Accept fails later): log.Fatal.
ListenFail ==
    /\ pc \in {"listen", "serving"}
    /\ Exit("listen", <<>>)
    /\ UNCHANGED <<env, idx, scanErr, envVars, tmplVars, mainVars, reqs>>

\* path.Clean on the segments of a rooted path: "." and empty segments go,
\* ".." takes the segment before it along.
RECURSIVE CleanSegs(_, _)
CleanSegs(segs, kept) ==
    IF segs = <<>> THEN kept
    ELSE IF Head(segs) = <<>> \/ Head(segs) = <<".">>
    THEN CleanSegs(Tail(segs), kept)
    ELSE IF Head(segs) = <<"..">>
    THEN CleanSegs(Tail(segs),
                   IF kept = <<>> THEN kept ELSE SubSeq(kept, 1, Len(kept) - 1))
    ELSE CleanSegs(Tail(segs), Append(kept, Head(segs)))

\* net/http cleanPath: the canonical path, a trailing slash kept.
CleanPath(p) ==
    LET np == Root \o Join(CleanSegs(Split(p, "/"), <<>>), "/")
    IN IF p = <<>> THEN Root
       ELSE IF p[Len(p)] = "/" /\ np # Root THEN np \o Root
       ELSE np

\* ServeMux redirects a path that is not registered when the path with a
\* slash added is.
RedirectToPathSlash(m, path) ==
    /\ path \notin DOMAIN m
    /\ path # <<>>
    /\ path[Len(path)] # "/"
    /\ (path \o Root) \in DOMAIN m

\* ServeMux match: the pattern equal to the path, else the longest pattern
\* that ends in a slash and is a prefix of the path.
IsMatch(pattern, path) ==
    \/ pattern = path
    \/ pattern # <<>> /\ pattern[Len(pattern)] = "/" /\ HasPrefix(path, pattern)

\* A variant of Match that takes every pattern for a prefix, with or without
\* a slash at its end.
MatchAnyPrefix(m, path) ==
    m[CHOOSE q \in DOMAIN m :
          HasPrefix(path, q)
          /\ \A r \in DOMAIN m : HasPrefix(path, r) => Len(r) <= Len(q)]

Match(m, path) ==
    IF path \in DOMAIN m THEN m[path]
    ELSE IF \E q \in DOMAIN m : IsMatch(q, path)
    THEN m[CHOOSE q \in DOMAIN m :
               IsMatch(q, path)
               /\ \A r \in DOMAIN m : IsMatch(r, path) => Len(r) <= Len(q)]
    ELSE "notfound"

\* ServeMux.Handler: the handler that serves a request for path.  The path
\* is cleaned first; a path that cleaning changes is answered by a redirect.
Dispatch(m, path) ==
    IF RedirectToPathSlash(m, CleanPath(path)) THEN "redirect"
    ELSE IF CleanPath(path) # path THEN "redirect"
    ELSE Match(m, path)

(***************************************************************************)
(* Requests.  Each accepted request runs in a goroutine of its own.        *)
(***************************************************************************)
Paths == { <<"/">>,
           <<"/", "other">>,
           <<"/", "ops">>,
           <<"/", "ops", "/">>,
           <<"/", "ops", "/", "anything">>,
           <<"/", "ops", "x">>,
           <<"/", "admin">>,
           <<"/", "admin", "/", "x">>,
           <<"/", "ops", "/", "..", "/", "other">> }

Users == { [Id |-> "1", Name |-> "Ada"], [Id |-> "2", Name |-> "Bob"] }

\* The tables "select * from users" can read.
Tables == UNION {[1..n -> Users] : n \in 0..MaxRows}

NoUser == [Id |-> "", Name |-> ""]

\* The server accepts a request and routes it.
Accept ==
    /\ pc = "serving"
    /\ inbox # <<>>
    /\ inbox' = Tail(inbox)
    /\ LET path == Head(inbox)
           h == Dispatch(mux, path)
       IN reqs' = Append(reqs,
              [path |-> path, handler |-> h,
               st |-> IF h \in {"admin", "primary"} THEN "start" ELSE "done",
               queries |-> <<>>, u |-> NoUser, renders |-> <<>>,
               body |-> <<>>])
    /\ UNCHANGED <<pc, env, idx, scanErr, diag, listening, env0, file, table,
                   tmplVars, mainVars>>

\* AdminHandler.ServeHTTP
AdminServe(i) ==
    /\ pc = "serving"
    /\ reqs[i].handler = "admin"
    /\ reqs[i].st = "start"
    /\ reqs' = [reqs EXCEPT ![i].body = <<"Admin foo">>, ![i].st = "done"]
    /\ UNCHANGED <<pc, env, idx, scanErr, diag, listening, envVars, tmplVars,
                   mainVars>>

\* A variant of ScanErr that wants one row, no more.
ScanErrExactlyOne(rows) == IF Len(rows) = 1 THEN "nil" ELSE "norows"

\* QueryRow(...).Scan(&u.Id, &u.Name) on the rows the query yields: no row is
\* ErrNoRows; otherwise the first row is scanned and the others are dropped.
ScanErr(rows) == IF Len(rows) = 0 THEN "norows" ELSE "nil"

\* Lines 152-156 when the query runs and yields the rows of the table.
HandlerQuery(i) ==
    /\ pc = "serving"
    /\ reqs[i].handler = "primary"
    /\ reqs[i].st = "start"
    /\ LET q == [conn |-> hdb, rows |-> table, err |-> ScanErr(table)]
       IN IF q.err # "nil"
          THEN /\ Exit("query", <<>>)
               /\ reqs' = [reqs EXCEPT ![i].queries = Append(@, q)]
          ELSE /\ reqs' = [reqs EXCEPT ![i].queries = Append(@, q),
                                       ![i].u = table[1],
                                       ![i].st = "queried"]
               /\ UNCHANGED <<pc, diag, listening>>
    /\ UNCHANGED <<env, idx, scanErr, envVars, tmplVars, mainVars>>

\* Lines 152-156 when the query or the scan fails for another reason (the
\* connection is lost or in use, a column does not fit): log.Fatalf.
HandlerQueryErr(i) ==
    /\ pc = "serving"
    /\ reqs[i].handler = "primary"
    /\ reqs[i].st = "start"
    /\ Exit("query", <<>>)
    /\ reqs' = [reqs EXCEPT ![i].queries =
                    Append(@, [conn |-> hdb, rows |-> <<>>, err |-> "failed"])]
    /\ UNCHANGED <<env, idx, scanErr, envVars, tmplVars, mainVars>>

\* A variant of RenderData that hands the whole User to the template.
RenderUser(u) == u

\* Line 158: what the Handler hands to render.
RenderData(u) == [Name |-> u.Name]

\* A variant of HandlerRender that reads and compiles the template again
\* before it executes it.
HandlerRenderReload(i) ==
    /\ pc = "serving"
    /\ reqs[i].handler = "primary"
    /\ reqs[i].st = "queried"
    /\ rootTemplate' = Register(rootTemplate, Hello, widx, BodyYo)
    /\ LET data == RenderData(reqs[i].u)
           err == ExecuteErr(rootTemplate', Hello, data)
           call == [name |-> Hello, data |-> data, err |-> err]
       IN reqs' = [reqs EXCEPT ![i].renders = Append(@, call),
                               ![i].body = ExecuteOut(rootTemplate', Hello, data),
                               ![i].st = "done"]
    /\ UNCHANGED <<pc, diag, listening, env, idx, scanErr, envVars, tree,
                   widx, parseErrs, mainVars>>

\* Line 158 and render (lines 133-138).
HandlerRender(i) ==
    /\ pc = "serving"
    /\ reqs[i].handler = "primary"
    /\ reqs[i].st = "queried"
    /\ LET data == RenderData(reqs[i].u)
           err == ExecuteErr(rootTemplate, Hello, data)
           call == [name |-> Hello, data |-> data, err |-> err]
       IN IF err # "nil"
          THEN /\ Exit("render", Hello)
               /\ reqs' = [reqs EXCEPT ![i].renders = Append(@, call)]
          ELSE /\ reqs' = [reqs EXCEPT ![i].renders = Append(@, call),
                                       ![i].body = ExecuteOut(rootTemplate, Hello, data),
                                       ![i].st = "done"]
               /\ UNCHANGED <<pc, diag, listening>>
    /\ UNCHANGED <<env, idx, scanErr, envVars, tmplVars, mainVars>>

(***************************************************************************)
(* The inputs: the lines .env can hold, the environments the process can   *)
(* start in, the embedded trees, the requests.                             *)
(***************************************************************************)
LPort == <<"PORT", "=", "8080">>
LPort2 == <<"PORT", "=", "9090">>
LDb == <<"DATABASE_URL", "=", "pg">>
LAdmin == <<"ADMIN_PATH", "=", "/", "ops", "/">>
LBlank == <<>>
LNoSep == <<"PORT">>
LTwoSep == <<"PORT", "=", "8080", "=", "x">>
LEmptyKey == <<"=", "8080">>
LEmptyVal == <<"PORT", "=">>
LNul == <<"X", "=", "NUL">>
LX == <<"X", "=", "1">>
LLong == <<"LONG">>

Lines == {LPort, LPort2, LDb, LAdmin, LBlank, LNoSep, LTwoSep, LEmptyKey,
          LEmptyVal, LNul, LX, LLong}

Files == UNION {[1..n -> Lines] : n \in 0..MaxLines}

EPort == <<PORT, <<"7070">>>>
EDb == <<DATABASE_URL, <<"pg0">>>>
EAdmin(p) == <<ADMIN_PATH, p>>

Envs == {EnvFrom(s) : s \in SUBSET {EPort, EDb, EAdmin(<<"/", "adm", "/">>)}}

\* Environments that name the port, with the admin paths the router can get.
AdminPaths == {<<"/", "ops", "/">>, <<"/", "ops">>, Root, <<>>}

ServeEnvs == {EnvFrom({EPort, EDb})}
                 \cup {EnvFrom({EPort, EDb, EAdmin(p)}) : p \in AdminPaths}

\* The embed directive refuses a directory with no file in it.
Trees == {t \in [FilePos -> Bodies \cup {Absent}] : \E i \in FilePos : t[i] # Absent}

TreeOf(a, b, c) == [i \in FilePos |-> IF i = 3 THEN a ELSE IF i = 4 THEN b ELSE c]

TreeHello == TreeOf(Absent, BodyHi, Absent)

AdminX == <<"/", "admin", "/", "x">>
OpsAnything == <<"/", "ops", "/", "anything">>
Other == <<"/", "other">>

\* One request for every path, and every sequence of requests for two of them.
Inboxes == {<<p>> : p \in Paths}
               \cup UNION {[1..n -> {Other, OpsAnything}] : n \in 0..MaxRequests}

Ada == [Id |-> "1", Name |-> "Ada"]
Bob == [Id |-> "2", Name |-> "Bob"]

NoTemplates == [set |-> <<>>, tmpl |-> <<>>, trees |-> <<>>]

InitOf(files, envs, trees, inboxes, tables) ==
    /\ pc = "loadEnv"
    /\ file \in files
    /\ env0 \in envs
    /\ env = env0
    /\ tree \in trees
    /\ inbox \in inboxes
    /\ table \in tables
    /\ idx = 0
    /\ scanErr = "nil"
    /\ diag = NoDiag
    /\ widx = 0
    /\ rootTemplate = NoTemplates
    /\ parseErrs = {}
    /\ conns = 0
    /\ closed = {}
    /\ mux = <<>>
    /\ port = <<>>
    /\ adminPath = <<>>
    /\ hdb = 0
    /\ listening = FALSE
    /\ reqs = <<>>

Next ==
    \/ LoadEnvOpenFail
    \/ LoadEnvOpen
    \/ LoadEnvLine
    \/ LoadEnvPartial
    \/ LoadEnvEOF
    \/ LoadEnvTooLong
    \/ LoadEnvReadErr
    \/ LoadTemplatesNew
    \/ WalkDirectory
    \/ WalkFile
    \/ WalkFail
    \/ WalkDone
    \/ ConnectFail
    \/ InitConnect
    \/ MainPort
    \/ MainConnect
    \/ MainAdmin
    \/ MainRoot
    \/ Listen
    \/ ListenFail
    \/ Accept
    \/ \E i \in 1..Len(reqs) : AdminServe(i)
    \/ \E i \in 1..Len(reqs) : HandlerQuery(i)
    \/ \E i \in 1..Len(reqs) : HandlerQueryErr(i)
    \/ \E i \in 1..Len(reqs) : HandlerRender(i)

\* Every .env and every starting environment; one tree, two requests.
Init == InitOf(Files, Envs, {TreeHello}, {<<Root, AdminX>>}, {<<Ada>>})

Spec == Init /\ [][Next]_vars

\* Every embedded tree.
InitTemplates == InitOf({<<>>, <<LPort, LLong>>}, {EnvFrom({EPort, EDb})}, Trees,
                        {<<Root, AdminX>>}, {<<Ada>>, <<Bob>>})

SpecTemplates == InitTemplates /\ [][Next]_vars

\* Every admin path, every table and the requests.
InitServe == InitOf({<<>>, <<LAdmin, LLong>>}, ServeEnvs,
                    {TreeHello, TreeOf(Absent, BodyId, BodyHi),
                     TreeOf(Absent, Absent, BodyHi)},
                    Inboxes, Tables)

SpecServe == InitServe /\ [][Next]_vars

(***************************************************************************)
(* Properties of loadEnv and of the required keys.                         *)
(***************************************************************************)
\* The key and the value of line i of .env.
KeyOf(i) == Split(file[i], "=")[1]
ValOf(i) == Split(file[i], "=")[2]

\* loadEnv has returned (the process may have ended later).
LoadEnvReturned ==
    /\ pc \notin {"loadEnv", "scan"}
    /\ pc = "exited" => diag.kind \notin {"open", "malformed", "read"}

\* The process is past fetchEnv("PORT").
PastPort == pc \in {"mainConnect", "mainAdmin", "mainRoot", "listen", "serving"}

\* No line of .env has the key, and the starting environment has not.
AbsentFromBoth(key) ==
    /\ ~LookupEnv(env0, key)
    /\ \A i \in 1..Len(file) : Split(file[i], "=")[1] # key

\* C1 as stated, for the lines os.Setenv accepts: after loadEnv, every line
\* it processed has its key set to the line's own value when the key was
\* unset at the start, and to the starting value otherwise.
C1_Original ==
    LoadEnvReturned =>
        \A i \in 1..idx :
            SetenvOK(KeyOf(i), ValOf(i)) =>
                /\ LookupEnv(env, KeyOf(i))
                /\ env[KeyOf(i)] = IF LookupEnv(env0, KeyOf(i))
                                   THEN env0[KeyOf(i)]
                                   ELSE ValOf(i)

\* C1, amended: for every line loadEnv processed, a key set at the start
\* keeps its starting value; a key unset at the start holds the value of the
\* first processed line for that key that os.Setenv accepts (non-empty key,
\* no NUL byte), and is still unset when there is no such line.  It holds in
\* every state but the death of the process on a read error in mid-line.
C1_EnvPrecedence ==
    diag.kind # "read" =>
        \A i \in 1..idx :
            LET k == KeyOf(i)
                js == {j \in 1..idx : KeyOf(j) = k /\ SetenvOK(k, ValOf(j))}
            IN IF LookupEnv(env0, k)
               THEN LookupEnv(env, k) /\ env[k] = env0[k]
               ELSE IF js = {} THEN ~LookupEnv(env, k)
               ELSE /\ LookupEnv(env, k)
                    /\ env[k] = ValOf(CHOOSE j \in js : \A l \in js : j <= l)

\* Reached: two processed lines for one key that was unset at the start, the
\* first line's value in the environment.
C1_Witness ==
    /\ LoadEnvReturned
    /\ idx = 2
    /\ KeyOf(1) = KeyOf(2)
    /\ ValOf(1) # ValOf(2)
    /\ ~LookupEnv(env0, KeyOf(1))
    /\ LookupEnv(env, KeyOf(1))
    /\ env[KeyOf(1)] = ValOf(1)

\* C2 as stated, for the runs in which reading .env meets no I/O error:
\* with a line in .env that has no "=" or more than one, nothing after
\* loadEnv runs (no template is registered, no connection is opened, no
\* listener is bound), and a diagnostic about a malformed line quotes a
\* malformed line of the file.
C2_MalformedIsFatal ==
    (scanErr # "read" /\ \E i \in 1..Len(file) : ~WellFormed(file[i])) =>
        /\ pc \in {"loadEnv", "scan", "exited"}
        /\ rootTemplate = NoTemplates
        /\ conns = 0
        /\ ~listening
        /\ diag.kind = "malformed" =>
               \E i \in 1..Len(file) : ~WellFormed(file[i]) /\ diag.text = file[i]

\* C3: the server is past fetchEnv("PORT"), or listening, only with PORT in
\* the environment; with PORT in neither the starting environment nor .env
\* the process never gets past fetchEnv("PORT"), never listens, accepts no
\* request, and when it has ended it has ended during startup.
C3_NoListenerWithoutPort ==
    /\ (PastPort \/ listening) => LookupEnv(env, PORT)
    /\ AbsentFromBoth(PORT) =>
           /\ ~PastPort
           /\ ~listening
           /\ reqs = <<>>
           /\ pc = "exited" =>
                  \/ diag.kind \in {"open", "malformed", "read", "walk", "connect"}
                  \/ diag = [kind |-> "unset", text |-> PORT]

\* Reached: PORT in neither source, and fetchEnv has ended the process
\* naming it.
C3_Witness ==
    /\ AbsentFromBoth(PORT)
    /\ pc = "exited"
    /\ diag = [kind |-> "unset", text |-> PORT]
    /\ conns = 1

\* C4 as stated: with a required key (PORT, DATABASE_URL) in neither source,
\* the process ends during startup with a diagnostic naming the key: it
\* never listens and never accepts a request.
C4_RequiredKeys ==
    \A key \in {PORT, DATABASE_URL} :
        AbsentFromBoth(key) =>
            /\ ~listening
            /\ reqs = <<>>
            /\ diag.kind = "unset" => diag.text \in {PORT, DATABASE_URL}

(***************************************************************************)
(* Properties of the router and of the handlers.                           *)
(***************************************************************************)
AdminFoo == <<"Admin foo">>

EndsInSlash(p) == p # <<>> /\ p[Len(p)] = "/"

\* C5 as stated: a request whose path starts with the admin prefix is served
\* by the AdminHandler, with the body "Admin foo" once it is done; every
\* other request is served by the primary Handler.
C5_Original ==
    \A i \in 1..Len(reqs) :
        IF HasPrefix(reqs[i].path, adminPath)
        THEN /\ reqs[i].handler = "admin"
             /\ reqs[i].st = "done" => reqs[i].body = AdminFoo
        ELSE reqs[i].handler = "primary"

\* C5, amended: with ADMIN_PATH resolved to P, a request is served by the
\* AdminHandler (body exactly "Admin foo") exactly when its path is in
\* canonical form and either equals P or starts with P and P ends in a
\* slash; it is answered by a redirect, and by neither handler, exactly when
\* its path is not in canonical form or is P less P's final slash; every
\* other request is served by the primary Handler.  With P = /ops/ the
\* request /ops/anything is served by the AdminHandler and /other by the
\* primary Handler.
C5_PrefixDispatch ==
    \A i \in 1..Len(reqs) :
        LET p == reqs[i].path
            canonical == CleanPath(p) = p
            underAdmin == p = adminPath
                              \/ (EndsInSlash(adminPath) /\ HasPrefix(p, adminPath))
            slashMissing == ~EndsInSlash(CleanPath(p))
                                /\ CleanPath(p) \o Root = adminPath
        IN /\ reqs[i].handler \in {"admin", "primary", "redirect"}
           /\ reqs[i].handler = "admin" <=> (canonical /\ underAdmin)
           /\ reqs[i].handler = "redirect" <=> (~canonical \/ slashMissing)
           /\ (reqs[i].handler = "admin" /\ reqs[i].st = "done")
                  => reqs[i].body = AdminFoo
           /\ reqs[i].handler = "redirect" => reqs[i].body = <<>>
           /\ (adminPath = <<"/", "ops", "/">> /\ p = OpsAnything)
                  => reqs[i].handler = "admin"
           /\ (adminPath = <<"/", "ops", "/">> /\ p = Other)
                  => reqs[i].handler = "primary"

\* Reached: with the admin path /ops/, /ops/anything answered "Admin foo"
\* by the AdminHandler and /other handed to the primary Handler.
C5_Witness ==
    /\ adminPath = <<"/", "ops", "/">>
    /\ \E i, j \in 1..Len(reqs) :
           /\ reqs[i].path = OpsAnything
           /\ reqs[i].handler = "admin"
           /\ reqs[i].st = "done"
           /\ reqs[i].body = AdminFoo
           /\ reqs[j].path = Other
           /\ reqs[j].handler = "primary"

\* The requests the primary Handler has run its query for.
Queried == {i \in 1..Len(reqs) : reqs[i].queries # <<>>}

C7_OneQueryOneRender ==
    \A i \in 1..Len(reqs) :
        LET q == reqs[i].queries
            r == reqs[i].renders
        IN IF reqs[i].handler = "primary"
           THEN /\ Len(q) <= 1
                /\ Len(r) <= 1
                /\ \A k \in 1..Len(q) : q[k].conn = hdb
                /\ reqs[i].st \in {"queried", "done"} =>
                       (Len(q) = 1 /\ q[1].err = "nil")
                /\ reqs[i].st = "done" => Len(r) = 1
                /\ r # <<>> =>
                       /\ Len(q) = 1
                       /\ q[1].err = "nil"
                       /\ r[1].name = Hello
                       /\ r[1].data = [Name |-> q[1].rows[1].Name]
                /\ (q # <<>> /\ q[1].err # "nil") => r = <<>>
           ELSE q = <<>> /\ r = <<>>

\* Reached: a request for /ops/anything handed to the primary Handler (the
\* admin path being /ops), done after one query and one render.
C7_Witness ==
    \E i \in 1..Len(reqs) :
        /\ reqs[i].path = OpsAnything
        /\ reqs[i].handler = "primary"
        /\ reqs[i].st = "done"
        /\ Len(reqs[i].queries) = 1
        /\ Len(reqs[i].renders) = 1
        /\ reqs[i].renders[1].data = [Name |-> "Bob"]

(***************************************************************************)
(* Properties of the template registry.                                    *)
(***************************************************************************)
\* init() has returned: the three steps of the bootstrap are over.
BootstrapDone ==
    pc \in {"main", "mainConnect", "mainAdmin", "mainRoot", "listen", "serving"}

\* The body ExecuteTemplate runs for a name of the registry (Nil: none).
RegisteredBody(name) == rootTemplate.trees[rootTemplate.set[name].text]

\* C8 as stated: once a template file has failed to be read or to compile,
\* connectDB does not run, no listener is bound and no request is accepted.
C8_TemplateFailureIsFatal ==
    (parseErrs # {} \/ diag.kind = "walk") =>
        /\ conns = 0
        /\ ~listening
        /\ reqs = <<>>

\* C9 as stated: after the bootstrap every file of the embedded tree has an
\* entry in the registry under its derived name, and rendering that name,
\* with data that has every field a body asks for, returns no error when the
\* file's body compiles.
C9_EveryFileRenders ==
    BootstrapDone =>
        \A i \in FilePos :
            tree[i] # Absent =>
                LET name == TemplateName(Walk[i].path)
                IN /\ name \in DOMAIN rootTemplate.set
                   /\ ParseOK(tree[i]) => ExecuteErr(rootTemplate, name, Ada) = "nil"

\* C10 as stated, for two files that both compile: when templates/hello and
\* templates/hello.tmpl are both in the tree, after the bootstrap the one
\* entry "hello" holds the body of templates/hello.tmpl, the later of the two
\* in the walk.
C10_LaterBodyWins ==
    (BootstrapDone /\ tree[3] # Absent /\ tree[4] # Absent
                   /\ ParseOK(tree[3]) /\ ParseOK(tree[4])) =>
        /\ TemplateName(Walk[3].path) = TemplateName(Walk[4].path)
        /\ Hello \in DOMAIN rootTemplate.set
        /\ RegisteredBody(Hello) = tree[4]
        /\ rootTemplate.set[Hello].Tree = tree[4]

(***************************************************************************)
(* Properties of the process as a whole.                                   *)
(***************************************************************************)
\* The requests whose query or whose render has returned an error.
Failed == {i \in 1..Len(reqs) :
              \/ \E k \in 1..Len(reqs[i].queries) : reqs[i].queries[k].err # "nil"
              \/ \E k \in 1..Len(reqs[i].renders) : reqs[i].renders[k].err # "nil"}

\* The requests a handler is still at work on.
InFlight == {i \in 1..Len(reqs) : reqs[i].st # "done"}

\* C11: a query or a render that fails in a request of the primary Handler
\* ends the whole process: as soon as a request has failed the process has
\* exited on a query or render diagnostic and the listener is gone; the step
\* that ends it leaves every other request as it was, in flight if it was in
\* flight; and once the process has exited no request is accepted, none
\* advances and none completes.
C11_FatalToProcess ==
    /\ [](Failed # {} =>
             /\ pc = "exited"
             /\ ~listening
             /\ diag.kind \in {"query", "render"}
             /\ Cardinality(Failed) = 1
             /\ Failed \subseteq InFlight)
    /\ [][(pc' = "exited" /\ diag'.kind \in {"query", "render"}) =>
             /\ Len(reqs') = Len(reqs)
             /\ \E i \in 1..Len(reqs) :
                    /\ i \in Failed' \ Failed
                    /\ reqs[i].handler = "primary"
                    /\ \A j \in 1..Len(reqs) : j # i => reqs'[j] = reqs[j]]_vars
    /\ [][pc = "exited" => (reqs' = reqs /\ inbox' = inbox /\ pc' = pc)]_vars

\* Reached: the process ended by a render that failed in one request while
\* an admin request was in flight, which stays where it was.
C11_Witness ==
    /\ pc = "exited"
    /\ diag.kind = "render"
    /\ Len(reqs) = 2
    /\ \E i, j \in 1..2 :
           /\ i \in Failed
           /\ reqs[j].handler = "admin"
           /\ reqs[j].st = "start"
           /\ reqs[j].body = <<>>

\* C12 as stated: the process never has more than one database connection
\* opened, and the connection the primary Handler queries is the first one,
\* the one connectDB opened during the bootstrap.
C12_OneConnection ==
    /\ conns <= 1
    /\ hdb # 0 => hdb = 1

\* loadEnv did not run to a clean end: .env could not be opened, a line was
\* malformed, or the scanner stopped on an error.
LoadEnvFailed ==
    scanErr # "nil" \/ diag.kind \in {"open", "malformed", "read"}

\* loadTemplates did not run to a clean end: the walk, a read or a compile
\* returned an error.
LoadTemplatesFailed == parseErrs # {} \/ diag.kind = "walk"

\* init's connectDB failed.
ConnectDBFailed == diag.kind = "connect" /\ conns = 0

\* C13 as stated: loadTemplates starts only after loadEnv has succeeded and
\* connectDB only after loadTemplates has succeeded; the server listens and
\* accepts requests only after all three have succeeded; a step that failed
\* is followed by no later step and by no listener.
C13_BootstrapOrder ==
    /\ rootTemplate # NoTemplates =>
           (pc \notin {"loadEnv", "scan"} /\ ~LoadEnvFailed)
    /\ conns > 0 =>
           /\ rootTemplate # NoTemplates
           /\ widx > Len(Walk)
           /\ ~LoadEnvFailed
           /\ ~LoadTemplatesFailed
    /\ (listening \/ reqs # <<>>) =>
           (conns > 0 /\ ~LoadEnvFailed /\ ~LoadTemplatesFailed)
    /\ LoadEnvFailed =>
           (rootTemplate = NoTemplates /\ conns = 0 /\ ~listening /\ reqs = <<>>)
    /\ LoadTemplatesFailed => (conns = 0 /\ ~listening /\ reqs = <<>>)
    /\ ConnectDBFailed => (mux = <<>> /\ ~listening /\ reqs = <<>>)

\* C14 as stated: when the process has ended after main opened the Handler's
\* connection, Close has been called on that connection.
C14_CloseAtShutdown ==
    (pc = "exited" /\ hdb # 0) => hdb \in closed

C16_Original ==
    LoadEnvReturned =>
        \A i, j \in 1..idx :
            (/\ i < j
             /\ KeyOf(i) = KeyOf(j)
             /\ KeyOf(i) # <<>>
             /\ ValOf(i) # ValOf(j)
             /\ ~LookupEnv(env0, KeyOf(i))
             /\ \A l \in 1..(i - 1) : KeyOf(l) # KeyOf(i)) =>
                /\ LookupEnv(env, KeyOf(i))
                /\ env[KeyOf(i)] = ValOf(i)

\* C16, amended: a key that was unset at the start and has several processed
\* lines holds the value of the first of them that os.Setenv accepts (a
\* non-empty key, no NUL byte in key or value), which every later line for
\* the key leaves in place; it is unset when os.Setenv accepts none of them.
\* It holds in every state but the death of the process on a read error in
\* mid-line.
C16_FirstLineWins ==
    diag.kind # "read" =>
        \A i, j \in 1..idx :
            (i < j /\ KeyOf(i) = KeyOf(j) /\ ~LookupEnv(env0, KeyOf(i))) =>
                LET accepted == {l \in 1..idx : /\ KeyOf(l) = KeyOf(i)
                                                /\ SetenvOK(KeyOf(l), ValOf(l))}
                IN IF accepted = {}
                   THEN ~LookupEnv(env, KeyOf(i))
                   ELSE /\ LookupEnv(env, KeyOf(i))
                        /\ env[KeyOf(i)] =
                               ValOf(CHOOSE l \in accepted : \A m \in accepted : l <= m)

\* Reached: .env is PORT=9090 then PORT=8080, PORT was unset at the start,
\* and main has read 9090, the first line's value.
C16_Witness ==
    /\ file = <<LPort2, LPort>>
    /\ idx = 2
    /\ ~LookupEnv(env0, PORT)
    /\ env[PORT] = <<"9090">>
    /\ port = <<"9090">>

\* C17: when .env cannot be opened the process ends in loadEnv, whatever the
\* environment holds: the environment is as it was at the start, no line was
\* read, no template is registered, no connection is opened, no route is
\* registered, no listener is bound and no request is accepted.
C17_OpenFailureIsFatal ==
    diag.kind = "open" =>
        /\ pc = "exited"
        /\ env = env0
        /\ idx = 0
        /\ rootTemplate = NoTemplates
        /\ conns = 0
        /\ mux = <<>>
        /\ ~listening
        /\ reqs = <<>>

\* Reached: the process ended on the failed open with PORT and DATABASE_URL
\* both in the environment.
C17_Witness ==
    /\ pc = "exited"
    /\ diag.kind = "open"
    /\ LookupEnv(env0, PORT)
    /\ LookupEnv(env0, DATABASE_URL)
    /\ conns = 0

\* C18 as stated, for a read that stops after at least one line: once the
\* scanner has stopped on an error the process has ended, and nothing after
\* loadEnv has run.
C18_PartialReadIsFatal ==
    (scanErr # "nil" /\ idx >= 1) =>
        /\ pc = "exited"
        /\ diag.kind \in {"read", "malformed"}
        /\ rootTemplate = NoTemplates
        /\ conns = 0
        /\ ~listening

(***************************************************************************)
(* More properties of the router.                                          *)
(***************************************************************************)
\* C19: when ADMIN_PATH resolves to "/", the AdminHandler is registered
\* under "/", the registration of the primary Handler under the same pattern
\* panics and the process ends there: it never listens and accepts no
\* request.  The server listens, and has accepted requests, only with the
\* two handlers under two patterns, the primary Handler under "/".
C19_RootAdminPath ==
    /\ adminPath = Root =>
           /\ pc \in {"mainRoot", "exited"}
           /\ mux = (Root :> "admin")
           /\ ~listening
           /\ reqs = <<>>
           /\ pc = "exited" => (diag = [kind |-> "panic", text |-> Root])
    /\ (listening \/ pc = "serving" \/ reqs # <<>>) =>
           /\ adminPath # Root
           /\ DOMAIN mux = {Root, adminPath}
           /\ mux[Root] = "primary"
           /\ mux[adminPath] = "admin"

\* Reached: ADMIN_PATH was "/", the second registration panicked and the
\* process has ended with only the admin route registered.
C19_Witness ==
    /\ adminPath = Root
    /\ LookupEnv(env, ADMIN_PATH)
    /\ env[ADMIN_PATH] = Root
    /\ pc = "exited"
    /\ diag = [kind |-> "panic", text |-> Root]
    /\ mux = (Root :> "admin")
    /\ conns = 2

====
